---- MODULE Spec2Model ----
(***************************************************************************)
(* ECR image cleanup: the two scripts of the repository as one state       *)
(* machine.  variant = "A" is scripts/test.go (one combined ranking of all *)
(* prefix-matched images), variant = "B" is scripts/main.go (one ranking   *)
(* per prefix plus an age cutoff).                                         *)
(*                                                                         *)
(* A Go string is a sequence of one-character strings; a nil-able pointer  *)
(* is a sequence of length 0 (nil) or 1; time is counted in hours.         *)
(***************************************************************************)
EXTENDS Integers, Sequences, FiniteSets, TLC

\* ------------------------------------------------------------------ bounds
MaxRepos == 2
MaxImages == 3
Now == 72

\* ------------------------------------------------------- program constants
HoursPerDay == 24
KeepCountA == 2
KeepCountB == 2

\* ------------------------------------------------------------ input domains
\* what the operator may type at the prefix prompt: "", "dv", "d,dv", "dv,d"
PrefixInputs ==
    { <<>>, <<"d", "v">>, <<"d", ",", "d", "v">>, <<"d", "v", ",", "d">> }

\* what the operator may type at the retention prompt (main.go only)
RetentionInputs == { -1, 1 }

\* what the operator may type at the dry-run prompt
DryRunInputs == { <<"y", "e", "s">>, <<"Y", "E", "S">>, <<"n", "o">> }

\* ImageTags of one image: none, [d], [dv], [d dv]
TagLists == << <<>>, << <<"d">> >>, << <<"d", "v">> >>, << <<"d">>, <<"d", "v">> >> >>

\* ImagePushedAt of one image: nil, 48 hours ago, 47 hours ago
PushedAts == << <<>>, <<Now - 48>>, <<Now - 47>> >>

\* the k-th kind of image: its tags and its push time
NumKinds == Len(TagLists) * Len(PushedAts)
KindTags(k) == TagLists[((k - 1) \div Len(PushedAts)) + 1]
KindPushedAt(k) == PushedAts[((k - 1) % Len(PushedAts)) + 1]

\* a DescribeRepositories answer of n repositories (named n, n-1, .., 1)
RepoList(n) == [i \in 1..n |-> n + 1 - i]

\* the ImageDetails of one DescribeImages answer: up to MaxImages images with
\* pairwise distinct digests (the digest of the i-th listed image is i).  The
\* listings are taken up to the order of their entries (kinds do not decrease
\* along a listing): the scripts use a digest only as a key, and SortOutcomes
\* below yields every arrangement of equally pushed images whatever the order
\* they were listed in.
ImageLists ==
    UNION { { [i \in 1..n |-> [digest |-> i, tags |-> KindTags(f[i]),
                               pushedAt |-> KindPushedAt(f[i])]]
              : f \in { g \in [1..n -> 1..NumKinds] :
                          \A i \in 1..n, j \in 1..n : i < j => g[i] <= g[j] } }
            : n \in 0..MaxImages }

\* ---------------------------------------------------------- string helpers
RECURSIVE SplitFrom(_, _, _)
SplitFrom(s, i, cur) ==
    IF i > Len(s) THEN << cur >>
    ELSE IF s[i] = "," THEN << cur >> \o SplitFrom(s, i + 1, <<>>)
    ELSE SplitFrom(s, i + 1, Append(cur, s[i]))

\* strings.Split(s, ","): never empty, "" gives [""]
Split(s) == SplitFrom(s, 1, <<>>)

\* strings.HasPrefix
HasPrefix(s, p) == Len(s) >= Len(p) /\ SubSeq(s, 1, Len(p)) = p

LowerChar(c) ==
    IF c = "Y" THEN "y" ELSE IF c = "E" THEN "e" ELSE IF c = "S" THEN "s" ELSE c

\* strings.ToLower
ToLower(s) == [i \in 1..Len(s) |-> LowerChar(s[i])]

Range(s) == { s[i] : i \in 1..Len(s) }

VARIABLES
    variant,        \* which script runs
    pc,             \* position in main
    prefixList,     \* raw prefix input
    retention,      \* main.go: retention in days
    dryRun,
    repos,          \* repos.Repositories from the one being processed on
    images,         \* imageOutput.ImageDetails of the current repository
    prefixMatchMap, \* main.go: prefix -> slice of taggedImage
    retainedDigests,\* main.go: retainedDigests; test.go: keepMap
    taggedMatches,  \* test.go
    untagged,       \* test.go
    toDelete,       \* test.go
    logged,         \* decision lines logged for the current repository
    deleteCalls,    \* digests of the BatchDeleteImage calls issued for the
                    \* current repository, in call order
    callsIssued     \* a BatchDeleteImage call was issued in this run

vars == << variant, pc, prefixList, retention, dryRun, repos, images,
           prefixMatchMap, retainedDigests, taggedMatches, untagged, toDelete,
           logged, deleteCalls, callsIssued >>

prefixes == Split(prefixList)

Init ==
    /\ variant \in { "A", "B" }
    /\ pc = "prompt"
    /\ prefixList = <<>>
    /\ retention = 0
    /\ dryRun = FALSE
    /\ repos = <<>>
    /\ images = <<>>
    /\ prefixMatchMap = <<>>
    /\ retainedDigests = {}
    /\ taggedMatches = <<>>
    /\ untagged = <<>>
    /\ toDelete = <<>>
    /\ logged = <<>>
    /\ deleteCalls = <<>>
    /\ callsIssued = FALSE

\* ------------------------------------------------------------ shared steps
\* the prompts: Scanln of prefix list, dry-run answer and (main.go) retention
ParseDryRun(answer) == ToLower(answer) = <<"y", "e", "s">>

ScanInputs ==
    /\ pc = "prompt"
    /\ \E p \in PrefixInputs, d \in DryRunInputs,
          r \in (IF variant = "B" THEN RetentionInputs ELSE { 0 }) :
            /\ prefixList' = p
            /\ dryRun' = ParseDryRun(d)
            /\ retention' = r
    /\ pc' = "list"
    /\ UNCHANGED << variant, repos, images, prefixMatchMap, retainedDigests,
                    taggedMatches, untagged, toDelete, logged, deleteCalls,
                    callsIssued >>

\* NewSession or DescribeRepositories fails (Fatalf), or no repository: main ends
ListFailsOrEmpty ==
    /\ pc = "list"
    /\ pc' = "done"
    /\ UNCHANGED << variant, prefixList, retention, dryRun, repos, images,
                    prefixMatchMap, retainedDigests, taggedMatches, untagged,
                    toDelete, logged, deleteCalls, callsIssued >>

DescribeRepositories ==
    /\ pc = "list"
    /\ \E n \in 1..MaxRepos : repos' = RepoList(n)
    /\ pc' = "describe"
    /\ UNCHANGED << variant, prefixList, retention, dryRun, images,
                    prefixMatchMap, retainedDigests, taggedMatches, untagged,
                    toDelete, logged, deleteCalls, callsIssued >>

\* the loop variables of one repository go out of scope with the iteration;
\* logged and deleteCalls start afresh for the next repositoryName
NextRepo ==
    /\ repos' = Tail(repos)
    /\ pc' = "describe"
    /\ images' = <<>>
    /\ prefixMatchMap' = <<>>
    /\ retainedDigests' = {}
    /\ taggedMatches' = <<>>
    /\ untagged' = <<>>
    /\ toDelete' = <<>>
    /\ logged' = <<>>
    /\ deleteCalls' = <<>>

\* DescribeImages fails or lists no image: continue with the next repository
DescribeImagesSkips ==
    /\ pc = "describe"
    /\ repos # <<>>
    /\ NextRepo
    /\ UNCHANGED << variant, prefixList, retention, dryRun, callsIssued >>

DescribeImages ==
    /\ pc = "describe"
    /\ repos # <<>>
    /\ \E l \in ImageLists : Len(l) > 0 /\ images' = l
    /\ pc' = "match"
    /\ UNCHANGED << variant, prefixList, retention, dryRun, repos,
                    prefixMatchMap, retainedDigests, taggedMatches, untagged,
                    toDelete, logged, deleteCalls, callsIssued >>

\* the loop over the repositories is over
Finish ==
    /\ pc = "describe"
    /\ repos = <<>>
    /\ pc' = "done"
    /\ UNCHANGED << variant, prefixList, retention, dryRun, repos, images,
                    prefixMatchMap, retainedDigests, taggedMatches, untagged,
                    toDelete, logged, deleteCalls, callsIssued >>

\* ------------------------------------------------------------ the rankings
PushedTime(e) == IF "pushedTime" \in DOMAIN e THEN e.pushedTime ELSE e.pushedAt[1]

\* time.Time.After
After(t, u) == t > u

RemoveAt(s, i) == SubSeq(s, 1, i - 1) \o SubSeq(s, i + 1, Len(s))

\* sort.Slice with less(i, j) = s[i] pushed after s[j]: the sort is not stable,
\* so every arrangement with no later-pushed entry behind an earlier-pushed one
\* is a possible result (equal entries are interchangeable: one of them is taken).
\* SortedHeads(s, k): the first k entries of every such arrangement.
RECURSIVE SortedHeads(_, _)
SortedHeads(s, k) ==
    IF s = <<>> \/ k = 0 THEN { <<>> }
    ELSE LET latest == { i \in 1..Len(s) :
                           \A j \in 1..Len(s) : ~After(PushedTime(s[j]), PushedTime(s[i])) }
             first == { i \in latest : \A j \in latest : s[j] = s[i] => i <= j }
         IN  UNION { { << s[i] >> \o r : r \in SortedHeads(RemoveAt(s, i), k - 1) }
                     : i \in first }

SortOutcomes(s) == SortedHeads(s, Len(s))

\* the digests of the first k entries
Top(s, k) == { s[i].digest : i \in 1..(IF Len(s) < k THEN Len(s) ELSE k) }

\* img.ImagePushedAt == nil
NoPushedAt(img) == img.pushedAt = <<>>

\* len(img.ImageTags) == 0
NoTags(img) == Len(img.tags) = 0

\* (mutation of CallsDelete: the dry-run flag is ignored)
CallsDeleteIgnoringDryRun(dry) == TRUE

\* !dryRun guards every BatchDeleteImage call
CallsDelete(dry) == ~dry

Line(img, text) == [digest |-> img.digest, line |-> text]

\* ------------------------------------------------- Variant A: scripts/test.go
\* the two nested loops that set matched
Matched(img, pfx) ==
    \E t \in 1..Len(img.tags), k \in 1..Len(pfx) : HasPrefix(img.tags[t], pfx[k])

\* the classification loop: images without pushedAt are skipped, untagged ones
\* collected, tagged ones collected when a tag starts with a prefix
TaggedMatchesOf(imgs, pfx) ==
    LET Test(img) == ~NoPushedAt(img) /\ ~NoTags(img) /\ Matched(img, pfx)
    IN  SelectSeq(imgs, Test)

\* (mutation of UntaggedOf: the pushedAt check is dropped)
UntaggedOfUnchecked(imgs) == SelectSeq(imgs, NoTags)

UntaggedOf(imgs) ==
    LET Test(img) == ~NoPushedAt(img) /\ NoTags(img)
    IN  SelectSeq(imgs, Test)

A_Classify ==
    /\ variant = "A"
    /\ pc = "match"
    /\ taggedMatches' = TaggedMatchesOf(images, prefixes)
    /\ untagged' = UntaggedOf(images)
    /\ pc' = "retain"
    /\ UNCHANGED << variant, prefixList, retention, dryRun, repos, images,
                    prefixMatchMap, retainedDigests, toDelete, logged,
                    deleteCalls, callsIssued >>

\* (mutation of KeepMapOf: one keep slot too many)
KeepMapOfOneMore(sorted) == Top(sorted, KeepCountA + 1)

\* keepMap: the digests at index < 2 of the sorted taggedMatches
KeepMapOf(sorted) == Top(sorted, KeepCountA)

\* toDelete: the matched images outside keepMap, then the untagged ones
ToDeleteOf(sorted, keep, untg) ==
    LET Test(img) == img.digest \notin keep
    IN  SelectSeq(sorted, Test) \o untg

A_SortAndRetain ==
    /\ variant = "A"
    /\ pc = "retain"
    /\ \E sorted \in SortOutcomes(taggedMatches) :
         LET keep == KeepMapOf(sorted)
             kept == SubSeq(sorted, 1, IF Len(sorted) < KeepCountA
                                       THEN Len(sorted) ELSE KeepCountA)
         IN  /\ taggedMatches' = sorted
             /\ retainedDigests' = keep
             /\ logged' = logged \o [i \in 1..Len(kept) |-> Line(kept[i], "Retaining")]
             /\ toDelete' = ToDeleteOf(sorted, keep, untagged)
    /\ pc' = "delete"
    /\ UNCHANGED << variant, prefixList, retention, dryRun, repos, images,
                    prefixMatchMap, untagged, deleteCalls, callsIssued >>

\* the loop over toDelete ("Deleted" stands for the call being issued, whether
\* it is answered by success or by an error)
A_DeleteOrDryRun ==
    /\ variant = "A"
    /\ pc = "delete"
    /\ IF CallsDelete(dryRun)
       THEN /\ deleteCalls' = deleteCalls \o [i \in 1..Len(toDelete) |-> toDelete[i].digest]
            /\ callsIssued' = (callsIssued \/ toDelete # <<>>)
            /\ logged' = logged \o [i \in 1..Len(toDelete) |-> Line(toDelete[i], "Deleted")]
       ELSE /\ UNCHANGED << deleteCalls, callsIssued >>
            /\ logged' = logged \o [i \in 1..Len(toDelete) |-> Line(toDelete[i], "WouldDelete")]
    /\ pc' = "processed"
    /\ UNCHANGED << variant, prefixList, retention, dryRun, repos, images,
                    prefixMatchMap, retainedDigests, taggedMatches, untagged,
                    toDelete >>

\* ------------------------------------------------- Variant B: scripts/main.go
TaggedImage(img) ==
    [digest |-> img.digest, tags |-> img.tags, pushedTime |-> img.pushedAt[1]]

\* the inner loop over prefixes: the index of the first prefix the tag starts
\* with (the loop breaks there), 0 when there is none
FirstPrefix(tag, pfx) ==
    LET hit == { k \in 1..Len(pfx) : HasPrefix(tag, pfx[k]) }
    IN  IF hit = {} THEN 0 ELSE CHOOSE k \in hit : \A m \in hit : k <= m

\* the entries one image appends to prefixMatchMap[p]: one per tag whose first
\* matching prefix is p
Appended(img, pfx, p) ==
    LET Test(tag) == FirstPrefix(tag, pfx) # 0 /\ pfx[FirstPrefix(tag, pfx)] = p
        hits == SelectSeq(img.tags, Test)
    IN  [j \in 1..Len(hits) |-> TaggedImage(img)]

\* Step 7 skips images without pushedAt or without tags
SkippedInStep7(img) == NoPushedAt(img) \/ NoTags(img)

RECURSIVE GroupFrom(_, _, _, _)
GroupFrom(imgs, pfx, p, i) ==
    IF i > Len(imgs) THEN <<>>
    ELSE (IF SkippedInStep7(imgs[i]) THEN <<>> ELSE Appended(imgs[i], pfx, p))
         \o GroupFrom(imgs, pfx, p, i + 1)

\* prefixMatchMap after Step 7: a key for every prefix something was appended to
PrefixMatchMapOf(imgs, pfx) ==
    LET keys == { p \in Range(pfx) : GroupFrom(imgs, pfx, p, 1) # <<>> }
    IN  [p \in keys |-> GroupFrom(imgs, pfx, p, 1)]

B_Step7_MatchPrefixes ==
    /\ variant = "B"
    /\ pc = "match"
    /\ prefixMatchMap' = PrefixMatchMapOf(images, prefixes)
    /\ pc' = "retain"
    /\ UNCHANGED << variant, prefixList, retention, dryRun, repos, images,
                    retainedDigests, taggedMatches, untagged, toDelete,
                    logged, deleteCalls, callsIssued >>

\* the digests Step 8 can take from one group: those at index < 2 of the
\* sorted group, for every way the sort can leave it
TopSets(group) == { Top(head, KeepCountB) : head \in SortedHeads(group, KeepCountB) }

\* every retainedDigests Step 8 can build: the union over the groups
RetainedOptions(m) ==
    LET ts == [p \in DOMAIN m |-> TopSets(m[p])]
        picks == { f \in [DOMAIN m -> UNION { ts[p] : p \in DOMAIN m }] :
                     \A p \in DOMAIN m : f[p] \in ts[p] }
    IN  { UNION { f[p] : p \in DOMAIN m } : f \in picks }

\* Step 8 (the sorted slices are not read again and are not kept in the state)
B_Step8_Retain ==
    /\ variant = "B"
    /\ pc = "retain"
    /\ \E r \in RetainedOptions(prefixMatchMap) : retainedDigests' = r
    /\ pc' = "process"
    /\ UNCHANGED << variant, prefixList, retention, dryRun, repos, images,
                    prefixMatchMap, taggedMatches, untagged, toDelete, logged,
                    deleteCalls, callsIssued >>

\* Go's int(x) of a float: truncation toward zero
TruncDiv(a, b) == IF a >= 0 THEN a \div b ELSE -((-a) \div b)

\* imageAge := int(time.Since(pushedAt).Hours() / 24)
ImageAge(img) == TruncDiv(Now - img.pushedAt[1], HoursPerDay)

\* (mutation of OlderThanRetention: the boundary day is deleted too)
OlderThanRetentionInclusive(age, ret) == age >= ret

\* imageAge > retention
OlderThanRetention(age, ret) == age > ret

\* one iteration of the Step 9 loop: the decision line it logs ("" for none)
\* and whether it calls BatchDeleteImage
Step9(img, retained, ret, dry) ==
    IF NoPushedAt(img) THEN [line |-> "", call |-> FALSE]
    ELSE IF NoTags(img) THEN [line |-> "UntaggedCandidate", call |-> FALSE]
    ELSE IF img.digest \in retained THEN [line |-> "Keep", call |-> FALSE]
    ELSE IF OlderThanRetention(ImageAge(img), ret)
    THEN [line |-> "OldDelete", call |-> CallsDelete(dry)]
    ELSE [line |-> "", call |-> FALSE]

\* the Step 9 loop over imageOutput.ImageDetails
B_Step9_ProcessImages ==
    /\ variant = "B"
    /\ pc = "process"
    /\ LET Logs(img) == Step9(img, retainedDigests, retention, dryRun).line # ""
           Calls(img) == Step9(img, retainedDigests, retention, dryRun).call
           lines == SelectSeq(images, Logs)
           calls == SelectSeq(images, Calls)
       IN  /\ logged' = logged \o
                 [i \in 1..Len(lines) |->
                    Line(lines[i], Step9(lines[i], retainedDigests, retention, dryRun).line)]
           /\ deleteCalls' = deleteCalls \o [i \in 1..Len(calls) |-> calls[i].digest]
           /\ callsIssued' = (callsIssued \/ calls # <<>>)
    /\ pc' = "processed"
    /\ UNCHANGED << variant, prefixList, retention, dryRun, repos, images,
                    prefixMatchMap, retainedDigests, taggedMatches, untagged,
                    toDelete >>

\* ---------------------------------------------------------------- the run
\* the loops of the current repository have run to their end
RepoProcessed == pc = "processed"

EndOfRepo ==
    /\ RepoProcessed
    /\ NextRepo
    /\ UNCHANGED << variant, prefixList, retention, dryRun, callsIssued >>

Next ==
    \/ ScanInputs
    \/ ListFailsOrEmpty
    \/ DescribeRepositories
    \/ DescribeImagesSkips
    \/ DescribeImages
    \/ Finish
    \/ A_Classify
    \/ A_SortAndRetain
    \/ A_DeleteOrDryRun
    \/ B_Step7_MatchPrefixes
    \/ B_Step8_Retain
    \/ B_Step9_ProcessImages
    \/ EndOfRepo

Spec == Init /\ [][Next]_vars

\* ===================================================================== claims
\* vocabulary of the properties
Absent(img) == img.pushedAt = <<>>
Tagged(img) == img.tags # <<>>
Listed == Range(images)
PushedHour(img) == img.pushedAt[1]

\* a BatchDeleteImage call was issued for digest d of the current repository
Called(d) == \E i \in 1..Len(deleteCalls) : deleteCalls[i] = d
CallCount(d) == Cardinality({ i \in 1..Len(deleteCalls) : deleteCalls[i] = d })

\* the decision lines logged for digest d
LinesOf(d) == { i \in 1..Len(logged) : logged[i].digest = d }
HasLine(d, texts) == \E i \in LinesOf(d) : logged[i].line \in texts
DeleteLines == { "Deleted", "WouldDelete", "UntaggedCandidate", "OldDelete" }
KeepLines == { "Retaining", "Keep" }

\* some tag of img starts with p
StartsWith(img, p) == \E t \in 1..Len(img.tags) : HasPrefix(img.tags[t], p)
RetainedPrefixes == Range(Split(prefixList))

\* age in whole days: floor((now - pushedAt) in days)
WholeDays(img) == (Now - PushedHour(img)) \div HoursPerDay

Min(a, b) == IF a < b THEN a ELSE b

\* ---- C1
\* C1: when dryRun is true no BatchDeleteImage call is issued for any image of
\* any repository during the run, in both scripts; the images selected for
\* deletion are only logged.
C1_DryRunIssuesNoDelete ==
    dryRun =>
        /\ ~callsIssued
        /\ deleteCalls = <<>>
        /\ \A i \in 1..Len(logged) : logged[i].line # "Deleted"
        /\ (RepoProcessed /\ variant = "A") =>
              \A i \in 1..Len(toDelete) : HasLine(toDelete[i].digest, { "WouldDelete" })

\* a dry run that selected an image for deletion and only logged it
C1_Witness ==
    /\ dryRun
    /\ RepoProcessed
    /\ \E i \in 1..Len(logged) : logged[i].line \in { "WouldDelete", "OldDelete" }

\* ---- C4
\* C4: in test.go the tagged images with a tag starting with a retained prefix
\* form one ranking by pushedAt descending; exactly its first
\* min(2, number of matched images) entries are kept (at most 2 "Retaining"
\* decisions) and every other matched image is deleted whatever its age.
C4_GlobalTopTwo ==
    (variant = "A" /\ pc \in { "delete", "processed" }) =>
        LET n == Len(taggedMatches)
            m == Min(KeepCountA, n)
            matched == { img \in Listed :
                           /\ ~Absent(img)
                           /\ Tagged(img)
                           /\ \E p \in RetainedPrefixes : StartsWith(img, p) }
        IN  /\ Range(taggedMatches) = matched
            /\ Cardinality(matched) = n
            /\ \A i \in 1..n, j \in 1..n :
                 i < j => PushedHour(taggedMatches[i]) >= PushedHour(taggedMatches[j])
            /\ retainedDigests = { taggedMatches[i].digest : i \in 1..m }
            /\ Cardinality(retainedDigests) = m
            /\ Cardinality({ i \in 1..Len(logged) : logged[i].line = "Retaining" }) = m
            /\ \A i \in 1..m : HasLine(taggedMatches[i].digest, { "Retaining" })
            /\ \A i \in 1..m : ~Called(taggedMatches[i].digest)
            /\ pc = "processed" =>
                 \A i \in (m + 1)..n :
                    /\ HasLine(taggedMatches[i].digest, { "Deleted", "WouldDelete" })
                    /\ ~HasLine(taggedMatches[i].digest, KeepLines)
                    /\ ~dryRun => Called(taggedMatches[i].digest)

\* three matched images: two kept, the third deleted although it is as recent
\* as test.go's inputs allow
C4_Witness ==
    /\ variant = "A"
    /\ pc = "processed"
    /\ ~dryRun
    /\ Len(taggedMatches) > KeepCountA
    /\ Called(taggedMatches[Len(taggedMatches)].digest)
    /\ PushedHour(taggedMatches[Len(taggedMatches)]) = Now - 47

\* ---- C5
\* C5: in main.go a tagged image with pushedAt present that is not in
\* retainedDigests is deleted if and only if its age in whole days is strictly
\* greater than the retention; at an age equal to the retention it is kept and
\* no delete call is issued for it.
C5_AgeCutoff ==
    (variant = "B" /\ RepoProcessed) =>
        \A img \in Listed :
            (~Absent(img) /\ Tagged(img) /\ img.digest \notin retainedDigests) =>
                /\ HasLine(img.digest, { "OldDelete" }) <=> (WholeDays(img) > retention)
                /\ ~dryRun => (Called(img.digest) <=> (WholeDays(img) > retention))
                /\ WholeDays(img) = retention =>
                      (~Called(img.digest) /\ ~HasLine(img.digest, DeleteLines))

\* a run that deletes an image two whole days old and keeps one of 47 hours,
\* whose whole-day age equals the retention of 1
C5_Witness ==
    /\ variant = "B"
    /\ RepoProcessed
    /\ ~dryRun
    /\ retention = 1
    /\ \E a \in Listed, b \in Listed :
         /\ ~Absent(a) /\ Tagged(a) /\ a.digest \notin retainedDigests
         /\ ~Absent(b) /\ Tagged(b) /\ b.digest \notin retainedDigests
         /\ Now - PushedHour(a) = 47 /\ WholeDays(a) = retention /\ ~Called(a.digest)
         /\ WholeDays(b) = 2 /\ Called(b.digest)

\* ---- C7
\* C7: an image without pushedAt is left out entirely in both scripts: it is
\* never deleted, gets no decision, is in no prefix group or ranking and never
\* takes one of the keep slots, tagged or not.
C7_AbsentPushedAtExcluded ==
    \A img \in Listed :
        Absent(img) =>
            /\ ~Called(img.digest)
            /\ LinesOf(img.digest) = {}
            /\ img.digest \notin retainedDigests
            /\ \A i \in 1..Len(taggedMatches) : taggedMatches[i].digest # img.digest
            /\ \A i \in 1..Len(untagged) : untagged[i].digest # img.digest
            /\ \A i \in 1..Len(toDelete) : toDelete[i].digest # img.digest
            /\ \A p \in DOMAIN prefixMatchMap :
                 \A i \in 1..Len(prefixMatchMap[p]) : prefixMatchMap[p][i].digest # img.digest

\* a processed repository listing a tagged image without pushedAt whose tag
\* starts with a retained prefix and an untagged one without pushedAt, while
\* another image of the repository is deleted
C7_Witness ==
    /\ RepoProcessed
    /\ deleteCalls # <<>>
    /\ \E a \in Listed, b \in Listed :
         /\ Absent(a) /\ Tagged(a) /\ \E p \in RetainedPrefixes : StartsWith(a, p)
         /\ Absent(b) /\ ~Tagged(b)

\* ---- C2
\* the prompts were answered with a retention below 0 or with no prefix at all
InvalidConfig ==
    /\ pc # "prompt"
    /\ \/ variant = "B" /\ retention < 0
       \/ prefixList = <<>>

\* the prompts were answered with the configuration the spec accepts
ValidConfig == pc # "prompt" /\ ~InvalidConfig

\* C2: in both scripts every image with no tags and a pushedAt is decided DELETE
\* as untagged whatever its age, so that with dryRun false a delete call for its
\* digest is issued.
C2_UntaggedDeleted ==
    (RepoProcessed /\ ValidConfig) =>
        \A img \in Listed :
            (~Absent(img) /\ ~Tagged(img)) =>
                /\ HasLine(img.digest, DeleteLines)
                /\ ~HasLine(img.digest, KeepLines)
                /\ ~dryRun => Called(img.digest)

\* ---- C3
\* the images main.go should rank for prefix p: the tagged images with a
\* pushedAt and a tag that starts with p
PrefixGroup(p) == { img \in Listed : ~Absent(img) /\ Tagged(img) /\ StartsWith(img, p) }

\* img is among the k most recently pushed of group however ties are broken
AmongMostRecent(img, group, k) ==
    Cardinality({ o \in group : o # img /\ PushedHour(o) >= PushedHour(img) }) < k

\* no image was appended twice to a group of prefixMatchMap
NoRepeatedEntry ==
    \A p \in DOMAIN prefixMatchMap :
        \A i \in 1..Len(prefixMatchMap[p]), j \in 1..Len(prefixMatchMap[p]) :
            i # j => prefixMatchMap[p][i].digest # prefixMatchMap[p][j].digest

\* C3: in main.go a tagged image is ranked in the group of every retained
\* prefix one of its tags starts with (also when one tag starts with several
\* prefixes), and it is kept (latest tag-match) and never deleted, however old,
\* whenever it is among the 2 most recently pushed images of one such group.
\* (Stated for the listings in which no image entered a group twice.)
C3_KeptByAnyGroup ==
    (variant = "B" /\ RepoProcessed /\ ValidConfig /\ NoRepeatedEntry) =>
        \A img \in Listed : \A p \in RetainedPrefixes :
            (img \in PrefixGroup(p) /\ AmongMostRecent(img, PrefixGroup(p), KeepCountB)) =>
                /\ img.digest \in retainedDigests
                /\ HasLine(img.digest, { "Keep" })
                /\ ~Called(img.digest)

\* ---- C6
\* the decisions taken for img: its decision lines, and main.go's silent
\* fall-through of Step 9, which keeps a tagged image within the retention
Decisions(img) ==
    Cardinality(LinesOf(img.digest))
    + (IF /\ variant = "B"
          /\ Tagged(img)
          /\ img.digest \notin retainedDigests
          /\ ~Called(img.digest)
          /\ LinesOf(img.digest) = {}
       THEN 1 ELSE 0)

\* C6: every listed image with a pushedAt gets exactly one decision (keep or
\* delete) and no digest is deleted twice, tagged images of test.go that match
\* no retained prefix included.
C6_ExactlyOneDecision ==
    (RepoProcessed /\ ValidConfig) =>
        \A img \in Listed :
            ~Absent(img) => (Decisions(img) = 1 /\ CallCount(img.digest) <= 1)

\* ---- C8
\* C8: a configuration that breaks the config invariants (negative retention,
\* empty prefix list) fails before any image is examined: no decision is
\* produced and no delete call is issued; an empty prefix input does not make
\* every tagged image a prefix match.
C8_InvalidConfigRejected ==
    InvalidConfig =>
        /\ logged = <<>>
        /\ ~callsIssued
        /\ taggedMatches = <<>>
        /\ DOMAIN prefixMatchMap = {}

\* ---- C9
\* a and b are ranked in the same rankings: both in test.go's taggedMatches, or
\* in main.go with the same tags, hence in the same prefix groups
RankedTogether(a, b) ==
    /\ ~Absent(a) /\ ~Absent(b)
    /\ IF variant = "A"
       THEN /\ \E i \in 1..Len(taggedMatches) : taggedMatches[i].digest = a.digest
            /\ \E i \in 1..Len(taggedMatches) : taggedMatches[i].digest = b.digest
       ELSE /\ a.tags = b.tags
            /\ \E p \in DOMAIN prefixMatchMap :
                 \E i \in 1..Len(prefixMatchMap[p]) : prefixMatchMap[p][i].digest = a.digest

\* C9: of two matching images with the same pushedAt the one with the smaller
\* digest is preferred for the last keep slot, in both scripts: the image with
\* the larger digest is never retained while the other one is not.
C9_SmallerDigestPreferred ==
    (RepoProcessed /\ ValidConfig) =>
        \A a \in Listed, b \in Listed :
            (/\ RankedTogether(a, b)
             /\ PushedHour(a) = PushedHour(b)
             /\ a.digest < b.digest
             /\ b.digest \in retainedDigests) =>
                (a.digest \in retainedDigests /\ ~Called(a.digest))

\* ---- C10
\* the distinct digests main.go ranks for prefix p
GroupDigests(p) == { prefixMatchMap[p][i].digest : i \in 1..Len(prefixMatchMap[p]) }

\* C10: in main.go an image takes one position of a group's ranking even when
\* several of its tags start with the prefix, so that of every group with at
\* least 2 distinct images the 2 most recently pushed ones are both retained.
C10_TwoDistinctPerGroup ==
    (variant = "B" /\ RepoProcessed /\ ValidConfig) =>
        \A p \in DOMAIN prefixMatchMap :
            Cardinality(GroupDigests(p)) >= KeepCountB =>
                Cardinality(GroupDigests(p) \cap retainedDigests) >= KeepCountB

====
